---- MODULE Spec2Model ----
(***************************************************************************)
(* Model of yb/yql/pggate/pg_dml.cc (class PgDml): the statement object    *)
(* that binds and assigns column values, declares targets, and fetches     *)
(* rows from the batches produced by its document operation (doc_op_).     *)
(*                                                                         *)
(* A slot (a PgsqlExpressionPB pointer) is named by what it was allocated  *)
(* for (a column's bind, a column's assignment, or the i-th target) and by *)
(* how many slots were allocated for that owner before it; pbs maps the    *)
(* allocated slots to their contents, NoSlot stands for nullptr.           *)
(*                                                                         *)
(* Three more procedures are modelled, each with its own variable and      *)
(* specification: YBCIndexExecuteSelect (access/ybc/ybcin.c),              *)
(* KeyValueTableTest::SelectAllRows (client/ql-dml-test-base.cc) and       *)
(* MasterTabletServiceImpl::GetTabletOrRespond                             *)
(* (master/master_tablet_service.cc).                                      *)
(***************************************************************************)
EXTENDS Integers, Sequences, FiniteSets, TLC

VARIABLES
  columns,        \* table_desc_->columns(): per attr_num the mutable PgColumn fields
  targets_,       \* PgDml::targets_
  expr_binds_,    \* PgDml::expr_binds_   : slot -> expression
  expr_assigns_,  \* PgDml::expr_assigns_ : slot -> expression
  pbs,            \* the protobufs allocated in the request, by slot
  ybctid_bind_,   \* PgDml::ybctid_bind_
  column_refs,    \* the PgsqlColumnRefsPB filled by SetColumnRefIds
  doc_op_,        \* the producing operation: executed? end of result? rows it may still deliver
  cursor_,        \* PgDml::cursor_ : the unread bytes of the current batch
  accumulated_row_count_,
  values,         \* caller's output buffers of Fetch
  isnulls,
  syscols,
  has_data,
  status,         \* the Status returned by the last call
  pc,             \* position inside PgDml::Fetch ("idle": no call in progress)
  row_count,      \* local of PgDml::Fetch
  last,           \* the name of the last call made by the caller
  fetch_log,      \* what the running/last Fetch did: flags and byte count
  delivered,      \* rows the producer has delivered in this execution, in order
  surfaced,       \* rows decoded by Fetch calls in this execution, in order
  sel,            \* the running/last YBCIndexExecuteSelect call (ybcin.c)
  sar,            \* the running/last KeyValueTableTest::SelectAllRows call
  rpc             \* the read requests in MasterTabletServiceImpl::GetTabletOrRespond

pgVars == <<columns, targets_, expr_binds_, expr_assigns_, pbs, ybctid_bind_,
            column_refs, doc_op_, cursor_, accumulated_row_count_, values,
            isnulls, syscols, has_data, status, pc, row_count, last, fetch_log,
            delivered, surfaced>>

\* The state of the callers and services outside PgDml.
otherVars == <<sel, sar, rpc>>

vars == <<pgVars, otherVars>>

bindVars  == <<columns, targets_, expr_binds_, expr_assigns_, pbs, ybctid_bind_,
               column_refs>>
fetchVars == <<doc_op_, cursor_, accumulated_row_count_, values, isnulls,
               syscols, has_data, pc, row_count, fetch_log, delivered, surfaced>>

-----------------------------------------------------------------------------
(* Bounds of the model *)

\* Most AppendTarget calls on one statement.
MaxTargets == 2
\* Most rows the producer delivers in one execution (empty batches are not limited).
MaxRows == 2

-----------------------------------------------------------------------------
(* The table: catalog of columns *)

\* PgSystemAttrNum::kYBTupleId, the row-identifier attribute.
YBTupleId == -8

\* Number of user columns of the table (the natts the caller passes to Fetch).
NAtts == 2

\* The immutable part of each column: DocDB column id, internal type, virtual.
Catalog ==
  [a \in {1, 2, YBTupleId} |->
     CASE a = 1 -> [id |-> 11, type |-> "int32",  virtual |-> FALSE]
       [] a = 2 -> [id |-> 12, type |-> "binary", virtual |-> FALSE]
       [] OTHER -> [id |-> 20, type |-> "binary", virtual |-> TRUE]]

\* table_desc_->columns() in catalog order.
ColumnOrder == <<1, 2, YBTupleId>>

\* Attribute numbers a caller binds; 9 names no column of the table.
BindAttrs == {1, YBTupleId, 9}

\* Attribute numbers a caller assigns.
AssignAttrs == {1, 9}

NoSlot == [kind |-> "none", n |-> 0, gen |-> 0]

\* PgTableDesc::FindColumn: does the attribute number name a column?
FindColumn(attr_num) == attr_num \in DOMAIN Catalog

InitColumns ==
  [a \in DOMAIN Catalog |->
     [read_requested |-> FALSE, write_requested |-> FALSE,
      bind_pb |-> NoSlot, assign_pb |-> NoSlot]]

-----------------------------------------------------------------------------
(* Expressions (PgExpr): constants, column references, operators *)

Const(t, v) == [kind |-> "const",  type |-> t, attr |-> 0, val |-> v]
ColRef(a)   == [kind |-> "colref",
                type |-> IF a \in DOMAIN Catalog THEN Catalog[a].type ELSE "int32",
                attr |-> a, val |-> 0]
Oper(t, v)  == [kind |-> "op",     type |-> t, attr |-> 0, val |-> v]
NoExpr      == [kind |-> "none",   type |-> "none", attr |-> 0, val |-> 0]

\* Expressions a caller binds or assigns to a column.
ValueExprs == {Const("int32", 10), Const("int32", 20), Const("binary", 40),
               Oper("int32", 50), Oper("binary", 60)}

\* Expressions a caller declares as targets.
TargetExprs == {ColRef(1), ColRef(2), ColRef(YBTupleId), Oper("int32", 50)}

\* PgExpr::is_constant
is_constant(e) == e.kind = "const"

\* PgExpr::internal_type
internal_type(e) == e.type

-----------------------------------------------------------------------------
(* Protobuf slots *)

EmptyPB == [column_id |-> 0, has_value |-> FALSE, value |-> 0]

\* A variant that marks every column it prepares, virtual or not.
PrepareColumnForReadAny(attr_num, target_pb, ps, cs) ==
  IF ~FindColumn(attr_num)
    THEN [ok |-> FALSE, err |-> "NotFound", pbs |-> ps, columns |-> cs]
    ELSE [ok |-> TRUE, err |-> "OK",
          pbs |-> [ps EXCEPT ![target_pb].column_id = Catalog[attr_num].id],
          columns |-> [cs EXCEPT ![attr_num].read_requested = TRUE]]

\* PgDml::PrepareColumnForRead: [ok, pbs, columns] after the call.
PrepareColumnForRead(attr_num, target_pb, ps, cs) ==
  IF ~FindColumn(attr_num)
    THEN [ok |-> FALSE, err |-> "NotFound", pbs |-> ps, columns |-> cs]
    ELSE [ok |-> TRUE, err |-> "OK",
          pbs |-> [ps EXCEPT ![target_pb].column_id = Catalog[attr_num].id],
          columns |-> IF ~Catalog[attr_num].virtual
                        THEN [cs EXCEPT ![attr_num].read_requested = TRUE]
                        ELSE cs]

\* PgDml::PrepareColumnForWrite: [pbs, columns] after the call (always OK).
PrepareColumnForWrite(attr_num, assign_pb, ps, cs) ==
  [pbs |-> [ps EXCEPT ![assign_pb].column_id = Catalog[attr_num].id],
   columns |-> IF ~Catalog[attr_num].virtual
                 THEN [cs EXCEPT ![attr_num].write_requested = TRUE]
                 ELSE cs]

\* PgExpr::PrepareForRead(pg_stmt, expr_pb).  A column reference prepares its
\* column for read; a constant has nothing to prepare; the preparation of an
\* operator may fail (ext_ok is the outcome the expression reports).
PrepareForRead(e, expr_pb, ps, cs, ext_ok) ==
  CASE e.kind = "colref" -> PrepareColumnForRead(e.attr, expr_pb, ps, cs)
    [] e.kind = "op" /\ ~ext_ok ->
         [ok |-> FALSE, err |-> "RuntimeError", pbs |-> ps, columns |-> cs]
    [] OTHER -> [ok |-> TRUE, err |-> "OK", pbs |-> ps, columns |-> cs]

\* The outcomes the preparation of an expression may report by itself.
PrepOutcomes(e) == IF e.kind = "op" THEN BOOLEAN ELSE {TRUE}

\* PgExpr::Eval(pg_stmt, expr_pb) when it succeeds: constants and operators
\* write their value into the protobuf, a column reference writes nothing.
Eval(e, pb) ==
  IF e.kind \in {"const", "op"}
    THEN [pb EXCEPT !.has_value = TRUE, !.value = e.val]
    ELSE pb

\* Can Eval of this expression report an error?
EvalMayFail(e) == e.kind = "op"

Alive == pc = "idle" /\ status # "Fatal"

\* m with key k mapped to v (std::map operator[] assignment).
MapSet(m, k, v) == [x \in (DOMAIN m) \cup {k} |-> IF x = k THEN v ELSE m[x]]

EmptyMap == [x \in {} |-> NoExpr]

\* A slot not yet allocated in the request ps, for the given owner.
NewSlot(kind, n, ps) ==
  [kind |-> kind, n |-> n,
   gen |-> 1 + Cardinality({s \in DOMAIN ps : s.kind = kind /\ s.n = n})]

\* The request with one more protobuf allocated for slot s.
Alloc(ps, s) == MapSet(ps, s, EmptyPB)

\* A variant that allocates a slot on every call, also for a column that has one.
AlwaysAlloc(column_pb) == TRUE

\* if (bind_pb == nullptr) / if (assign_pb == nullptr): the column has no
\* slot yet and one must be allocated.
NeedsAlloc(column_pb) == column_pb = NoSlot

\* A variant that keeps the expression a slot already has (map insert
\* instead of assignment).
KeepFirstEntry(map, bind_pb, attr_value) ==
  IF bind_pb \in DOMAIN map THEN map ELSE MapSet(map, bind_pb, attr_value)

\* expr_binds_[bind_pb] = attr_value
BindEntry(map, bind_pb, attr_value) == MapSet(map, bind_pb, attr_value)

-----------------------------------------------------------------------------
(* PgDml: binding, assignment, targets *)

\* A variant of ClearBinds that reports success without doing anything.
ClearBindsSilent == "OK"

\* The status ClearBinds returns: STATUS(NotSupported, ...).
ClearBindsStatus == "NotSupported"

\* PgDml::ClearBinds
ClearBinds ==
  /\ Alive
  /\ status' = ClearBindsStatus
  /\ last' = "ClearBinds"
  /\ UNCHANGED <<bindVars, fetchVars>>
  /\ UNCHANGED otherVars

\* A variant that records the target before its preparation is checked.
TargetEntryAlways(ok, map, expr_pb, target) == MapSet(map, expr_pb, target)

\* RETURN_NOT_OK(target->PrepareForRead(this, expr_pb));
\* expr_binds_[expr_pb] = target;
TargetEntry(ok, map, expr_pb, target) ==
  IF ok THEN MapSet(map, expr_pb, target) ELSE map

\* PgDml::AppendTarget(target); prep_ok is the outcome an operator's
\* preparation reports.  Targets are declared before the statement executes.
AppendTarget(target, prep_ok) ==
  /\ Alive
  /\ ~doc_op_.executed
  /\ Len(targets_) < MaxTargets
  /\ LET expr_pb == NewSlot("target", Len(targets_) + 1, pbs)  \* AllocTargetPB()
         r == PrepareForRead(target, expr_pb, Alloc(pbs, expr_pb), columns, prep_ok)
     IN /\ targets_' = Append(targets_, target)
        /\ pbs' = r.pbs
        /\ columns' = r.columns
        /\ status' = r.err
        /\ expr_binds_' = TargetEntry(r.ok, expr_binds_, expr_pb, target)
  /\ last' = "AppendTarget"
  /\ UNCHANGED <<expr_assigns_, ybctid_bind_, column_refs, fetchVars>>
  /\ UNCHANGED otherVars

\* A variant that lists the columns requested for read only.
RECURSIVE ReadRefIds(_, _)
ReadRefIds(cs, order) ==
  IF order = <<>> THEN <<>>
  ELSE LET a == Head(order)
       IN (IF cs[a].read_requested THEN <<Catalog[a].id>> ELSE <<>>)
            \o ReadRefIds(cs, Tail(order))

\* PgDml::SetColumnRefIds: the ids of the requested columns, in catalog order.
RECURSIVE RefIds(_, _)
RefIds(cs, order) ==
  IF order = <<>> THEN <<>>
  ELSE LET a == Head(order)
       IN (IF cs[a].read_requested \/ cs[a].write_requested
             THEN <<Catalog[a].id>> ELSE <<>>) \o RefIds(cs, Tail(order))

SetColumnRefIds ==
  /\ Alive
  /\ column_refs' = RefIds(columns, ColumnOrder)
  /\ status' = "OK"
  /\ last' = "SetColumnRefIds"
  /\ UNCHANGED <<columns, targets_, expr_binds_, expr_assigns_, pbs,
                 ybctid_bind_, fetchVars>>
  /\ UNCHANGED otherVars

\* The datatype check of BindColumn and AssignColumn: SCHECK_EQ fails.
TypeCheckFails(col_type, expr_type) ==
  col_type # "binary" /\ col_type # expr_type

\* A variant that keeps the row identifier captured by the first bind.
KeepYbctid(old, attr_value) == IF old = 0 THEN attr_value.val ELSE old

\* ybctid_bind_ = static_cast<PgConstant*>(attr_value)->binary_value()
CaptureYbctid(old, attr_value) == attr_value.val

\* PgDml::BindColumn(attr_num, attr_value)
BindColumn(attr_num, attr_value, prep_ok) ==
  /\ Alive
  /\ last' = "BindColumn"
  /\ UNCHANGED <<targets_, expr_assigns_, column_refs, fetchVars>>
  /\ IF ~FindColumn(attr_num)
       THEN /\ status' = "NotFound"
            /\ UNCHANGED <<columns, expr_binds_, pbs, ybctid_bind_>>
     ELSE IF TypeCheckFails(Catalog[attr_num].type, internal_type(attr_value))
       THEN /\ status' = "Corruption"
            /\ UNCHANGED <<columns, expr_binds_, pbs, ybctid_bind_>>
     ELSE
       LET fresh   == NeedsAlloc(columns[attr_num].bind_pb)
           bind_pb == IF fresh THEN NewSlot("bind", attr_num, pbs)  \* AllocColumnBindPB(col)
                               ELSE columns[attr_num].bind_pb
           pbs1    == IF fresh THEN Alloc(pbs, bind_pb) ELSE pbs
           cols1   == [columns EXCEPT ![attr_num].bind_pb = bind_pb]
           r       == PrepareForRead(attr_value, bind_pb, pbs1, cols1, prep_ok)
       IN /\ pbs' = r.pbs
          /\ columns' = r.columns
          /\ IF ~r.ok
               THEN /\ status' = r.err
                    /\ UNCHANGED <<expr_binds_, ybctid_bind_>>
               ELSE /\ expr_binds_' = BindEntry(expr_binds_, bind_pb, attr_value)
                    /\ IF attr_num = YBTupleId
                         THEN IF is_constant(attr_value)
                                THEN /\ ybctid_bind_' = CaptureYbctid(ybctid_bind_, attr_value)
                                     /\ status' = "OK"
                                ELSE /\ status' = "Fatal"   \* CHECK fails
                                     /\ UNCHANGED ybctid_bind_
                         ELSE /\ status' = "OK"
                              /\ UNCHANGED ybctid_bind_
  /\ UNCHANGED otherVars

\* A variant without the conflict test: a second assignment overwrites.
NoConflict(attr_num) == FALSE

\* A variant that takes an allocated slot for an assigned column.
SlotAllocated(attr_num) == columns[attr_num].assign_pb # NoSlot

\* The conflict test of AssignColumn: the column has a slot and the slot has
\* an expression.
AssignConflict(attr_num) ==
  /\ columns[attr_num].assign_pb # NoSlot
  /\ columns[attr_num].assign_pb \in DOMAIN expr_assigns_

\* PgDml::AssignColumn(attr_num, attr_value)
AssignColumn(attr_num, attr_value, prep_ok) ==
  /\ Alive
  /\ last' = "AssignColumn"
  /\ UNCHANGED <<targets_, expr_binds_, ybctid_bind_, column_refs, fetchVars>>
  /\ IF ~FindColumn(attr_num)
       THEN /\ status' = "NotFound"
            /\ UNCHANGED <<columns, expr_assigns_, pbs>>
     ELSE IF TypeCheckFails(Catalog[attr_num].type, internal_type(attr_value))
       THEN /\ status' = "Corruption"
            /\ UNCHANGED <<columns, expr_assigns_, pbs>>
     ELSE IF AssignConflict(attr_num)
       THEN /\ status' = "InvalidArgument"
            /\ UNCHANGED <<columns, expr_assigns_, pbs>>
     ELSE
       LET fresh     == NeedsAlloc(columns[attr_num].assign_pb)
           assign_pb == IF fresh THEN NewSlot("assign", attr_num, pbs)  \* AllocColumnAssignPB(col)
                                 ELSE columns[attr_num].assign_pb
           pbs1      == IF fresh THEN Alloc(pbs, assign_pb) ELSE pbs
           cols1     == [columns EXCEPT ![attr_num].assign_pb = assign_pb]
           w         == PrepareColumnForWrite(attr_num, assign_pb, pbs1, cols1)
           r         == PrepareForRead(attr_value, assign_pb, w.pbs, w.columns, prep_ok)
       IN /\ pbs' = r.pbs
          /\ columns' = r.columns
          /\ status' = r.err
          /\ expr_assigns_' = IF r.ok THEN MapSet(expr_assigns_, assign_pb, attr_value)
                                      ELSE expr_assigns_
  /\ UNCHANGED otherVars

\* A variant that rebuilds the request from the evaluated entries, freeing
\* every other slot.
EvalAndFree(map, todo, ps) == [s \in todo |-> Eval(map[s], ps[s])]

\* A variant that evaluates only the entries whose slot holds no value yet.
EvalNewEntries(map, todo, ps) ==
  [s \in DOMAIN ps |-> IF s \in todo /\ ~ps[s].has_value
                         THEN Eval(map[s], ps[s]) ELSE ps[s]]

\* The loop of UpdateBindPBs / UpdateAssignPBs over a map: the entries in
\* todo are evaluated into their slots.
EvalEntries(map, todo, ps) ==
  [s \in DOMAIN ps |-> IF s \in todo THEN Eval(map[s], ps[s]) ELSE ps[s]]

\* The entries a run of the loop evaluates.  The map is ordered by slot
\* address, so the loop may meet the entries in any order; it stops at the
\* first entry whose Eval fails (failing = NoSlot: no Eval fails).
Evaluated(map, done, failing) ==
  IF failing = NoSlot THEN DOMAIN map ELSE done

\* The sets of entries the loop may have evaluated before it meets failing.
Prefixes(map, failing) ==
  IF failing = NoSlot THEN {DOMAIN map} ELSE SUBSET ((DOMAIN map) \ {failing})

\* PgDml::UpdateBindPBs
UpdateBindPBs ==
  /\ Alive
  /\ \E failing \in {NoSlot} \cup {s \in DOMAIN expr_binds_ : EvalMayFail(expr_binds_[s])} :
       \E done \in Prefixes(expr_binds_, failing) :
         /\ pbs' = EvalEntries(expr_binds_, Evaluated(expr_binds_, done, failing), pbs)
         /\ status' = IF failing = NoSlot THEN "OK" ELSE "RuntimeError"
  /\ last' = "UpdateBindPBs"
  /\ UNCHANGED <<columns, targets_, expr_binds_, expr_assigns_, ybctid_bind_,
                 column_refs, fetchVars>>
  /\ UNCHANGED otherVars

\* PgDml::UpdateAssignPBs
UpdateAssignPBs ==
  /\ Alive
  /\ \E failing \in {NoSlot} \cup {s \in DOMAIN expr_assigns_ : EvalMayFail(expr_assigns_[s])} :
       \E done \in Prefixes(expr_assigns_, failing) :
         /\ pbs' = EvalEntries(expr_assigns_, Evaluated(expr_assigns_, done, failing), pbs)
         /\ status' = IF failing = NoSlot THEN "OK" ELSE "RuntimeError"
  /\ last' = "UpdateAssignPBs"
  /\ UNCHANGED <<columns, targets_, expr_binds_, expr_assigns_, ybctid_bind_,
                 column_refs, fetchVars>>
  /\ UNCHANGED otherVars

-----------------------------------------------------------------------------
(* Wire format of a batch: rows in order, each row its targets' values in   *)
(* target-list order, each value a header byte (1: null) followed, when not *)
(* null, by the payload: 4 bytes for int32, an 8-byte length and the bytes  *)
(* for binary.                                                              *)

\* A value as the producer holds it and as the decoder returns it.
NullDatum      == [isnull |-> TRUE,  num |-> 0, bytes |-> <<>>]
IntDatum(v)    == [isnull |-> FALSE, num |-> v, bytes |-> <<>>]
BytesDatum(b)  == [isnull |-> FALSE, num |-> 0, bytes |-> b]

\* The rows stored in the table the statement reads.
TableRows == {"A", "B", "C"}

\* The value the producer holds for a target in a stored row.
DataOf(target, r) ==
  CASE target.kind = "colref" /\ target.attr = 1 ->
         (CASE r = "A" -> IntDatum(1) [] r = "B" -> NullDatum [] OTHER -> IntDatum(2))
    [] target.kind = "colref" /\ target.attr = 2 ->
         (CASE r = "A" -> BytesDatum(<<5>>) [] r = "B" -> BytesDatum(<<6, 6>>)
            [] OTHER -> NullDatum)
    [] target.kind = "colref" /\ target.attr = YBTupleId ->
         (CASE r = "A" -> BytesDatum(<<7, 9>>) [] r = "B" -> BytesDatum(<<8>>)
            [] OTHER -> BytesDatum(<<8, 1>>))
    [] OTHER ->
         (CASE r = "A" -> IntDatum(3) [] r = "B" -> NullDatum [] OTHER -> IntDatum(4))

\* Big-endian bytes of a non-negative number, n bytes wide.
RECURSIVE ToBytes(_, _)
ToBytes(v, n) ==
  IF n = 0 THEN <<>> ELSE Append(ToBytes(v \div 256, n - 1), v % 256)

\* The number whose big-endian bytes are the first n elements of b.
RECURSIVE FromBytesTo(_, _)
FromBytesTo(b, n) ==
  IF n = 0 THEN 0 ELSE FromBytesTo(b, n - 1) * 256 + b[n]

FromBytes(b) == FromBytesTo(b, Len(b))

\* The producer's encoding of one value of the given internal type.
EncodeDatum(type, d) ==
  IF d.isnull THEN <<1>>
  ELSE IF type = "binary" THEN <<0>> \o ToBytes(Len(d.bytes), 8) \o d.bytes
  ELSE <<0>> \o ToBytes(d.num, 4)

RECURSIVE EncodeRow(_, _)
EncodeRow(ts, row) ==
  IF ts = <<>> THEN <<>>
  ELSE EncodeDatum(Head(ts).type, Head(row)) \o EncodeRow(Tail(ts), Tail(row))

RECURSIVE EncodeRows(_, _)
EncodeRows(ts, rows) ==
  IF rows = <<>> THEN <<>>
  ELSE EncodeRow(ts, Head(rows)) \o EncodeRows(ts, Tail(rows))

\* The rows the producer can deliver for a target list: the stored rows,
\* each as its targets' values in target-list order.
RowsOf(ts) == {[i \in 1..Len(ts) |-> DataOf(ts[i], r)] : r \in TableRows}

\* The batches (sequences of rows) of at most n rows.
BatchesOf(ts, n) == UNION {[1..k -> RowsOf(ts)] : k \in 0..n}

Drop(seq, n) == SubSeq(seq, n + 1, Len(seq))

\* PgDocData::ReadDataHeader: the header byte at the cursor.
ReadDataHeader(cur) == [is_null |-> cur[1] = 1, size |-> 1]

\* PgExpr::TranslateData of a column reference: the value decoded at the
\* cursor (after the header) and the number of bytes it takes.
TranslateData(type, cur, header) ==
  IF header.is_null THEN [datum |-> NullDatum, size |-> 0]
  ELSE IF type = "binary"
    THEN CHOOSE x \in {[datum |-> BytesDatum(SubSeq(cur, 9, 8 + n)), size |-> 8 + n] :
                        n \in {FromBytes(b) : b \in {SubSeq(cur, 1, 8)}}} : TRUE
  ELSE [datum |-> IntDatum(FromBytes(SubSeq(cur, 1, 4))), size |-> 4]

\* Where TranslateData writes the value of the column with this attribute
\* number: the row identifier goes to the system columns, a user column to
\* index attr_num - 1 of the value and null arrays.
WriteDatum(attr_num, d, t) ==
  IF attr_num = YBTupleId
    THEN IF d.isnull THEN t ELSE [t EXCEPT !.syscols.ybctid = d.bytes]
    ELSE IF d.isnull THEN t
         ELSE [t EXCEPT !.values[attr_num - 1] = [num |-> d.num, bytes |-> d.bytes],
                        !.isnulls[attr_num - 1] = FALSE]

\* A variant that writes each value to the output position of its target
\* in the target list instead of the position of its column.
RECURSIVE WritePgTupleByPosition(_, _)
WritePgTupleByPosition(ts, t) ==
  IF ts = <<>> THEN [t EXCEPT !.err = "OK"]
  ELSE LET target == Head(ts)
       IN IF target.kind # "colref"
            THEN [t EXCEPT !.err = "InternalError"]
            ELSE LET header == ReadDataHeader(t.cursor)
                     after  == Drop(t.cursor, header.size)
                     x      == TranslateData(target.type, after, header)
                     t1     == WriteDatum(Len(t.row) + 1, x.datum, t)
                 IN WritePgTupleByPosition(Tail(ts),
                                 [t1 EXCEPT !.cursor = Drop(after, x.size),
                                            !.row = Append(t.row, x.datum)])

\* A variant that reports a row without reading it from the cursor.
WritePgTupleNoRead(ts, t) == [t EXCEPT !.err = "OK"]

\* PgDml::WritePgTuple over the remaining targets ts: t is the tuple and
\* cursor so far, with the values decoded so far in t.row.
RECURSIVE WritePgTuple(_, _)
WritePgTuple(ts, t) ==
  IF ts = <<>> THEN [t EXCEPT !.err = "OK"]
  ELSE LET target == Head(ts)
       IN IF target.kind # "colref"
            THEN [t EXCEPT !.err = "InternalError"]
            ELSE LET header == ReadDataHeader(t.cursor)
                     after  == Drop(t.cursor, header.size)
                 IN \* x and t1 are bound as values, so each is computed once
                    CHOOSE r \in
                      {WritePgTuple(Tail(ts), t1) :
                         t1 \in {[WriteDatum(target.attr, x.datum, t) EXCEPT
                                    !.cursor = Drop(after, x.size),
                                    !.row = Append(t.row, x.datum)] :
                                  x \in {TranslateData(target.type, after, header)}}} : TRUE

-----------------------------------------------------------------------------
(* Execution and PgDml::Fetch *)

\* Errors the producing operation may return; they are passed on unchanged.
ExtErrors == {"TryAgain", "TimedOut"}

NewLog == [asked_eor |-> FALSE, eor_true |-> FALSE, asked_batch |-> FALSE,
           empty_batch |-> FALSE, start_empty |-> FALSE, consumed |-> 0,
           misaligned |-> FALSE, after_end |-> FALSE]

\* Execution of the statement: the producing operation exists from here on.
\* Its result may be empty from the start.
Exec ==
  /\ Alive
  /\ ~doc_op_.executed
  /\ \E e \in BOOLEAN : doc_op_' = [executed |-> TRUE, end |-> e]
  /\ status' = "OK"
  /\ last' = "Exec"
  /\ UNCHANGED <<bindVars, cursor_, accumulated_row_count_, values, isnulls,
                 syscols, has_data, pc, row_count, fetch_log, delivered, surfaced>>
  /\ UNCHANGED otherVars

\* A variant without the memset: the caller's null array is left as it is.
KeepNulls(nulls, natts) == nulls

\* memset(isnulls, true, natts * sizeof(bool))
ResetNulls(nulls, natts) ==
  [i \in DOMAIN nulls |-> IF i < natts THEN TRUE ELSE nulls[i]]

\* memset(syscols, 0, sizeof(PgSysColumns))
ResetSysCols(sys) == [oid |-> 0, ybctid |-> <<>>]

\* A variant of the entry of Fetch that never consults the producer.
NeverLoad(cur) == "decode"

\* A variant that always consults the producer first.
AlwaysLoad(cur) == "check_end"

\* if (cursor_.empty()): where Fetch goes after resetting the outputs.
FetchEntry(cur) == IF cur = <<>> THEN "check_end" ELSE "decode"

\* Fetch, entry: the output buffers are reset, and the cursor decides whether
\* a batch has to be loaded.
FetchBegin ==
  /\ Alive
  /\ doc_op_.executed
  /\ ~fetch_log.misaligned
  /\ isnulls' = ResetNulls(isnulls, NAtts)
  /\ syscols' = ResetSysCols(syscols)
  /\ row_count' = 0
  /\ fetch_log' = [NewLog EXCEPT
                     !.start_empty = (cursor_ = <<>>),
                     !.after_end = (last = "Fetch" /\ status = "OK" /\ ~has_data)]
  /\ pc' = FetchEntry(cursor_)
  /\ last' = "Fetch"
  /\ status' = "Running"
  /\ UNCHANGED <<bindVars, doc_op_, cursor_, accumulated_row_count_, values,
                 has_data, delivered, surfaced>>
  /\ UNCHANGED otherVars

\* A variant that tries the failed step again instead of returning.
RetryAfterError(here) == here

\* VERIFY_RESULT / RETURN_NOT_OK in Fetch: where the call goes when the step
\* at position here returned an error.
AfterError(here) == "idle"

\* Fetch, head of the loop: doc_op_->EndOfResult().
FetchEndOfResult ==
  /\ pc = "check_end"
  /\ \/ \E e \in ExtErrors :
          /\ status' = e
          /\ pc' = AfterError("check_end")
          /\ fetch_log' = [fetch_log EXCEPT !.asked_eor = TRUE]
          /\ UNCHANGED has_data
     \/ /\ doc_op_.end
        /\ has_data' = FALSE
        /\ status' = "OK"
        /\ pc' = "idle"
        /\ fetch_log' = [fetch_log EXCEPT !.asked_eor = TRUE, !.eor_true = TRUE]
     \/ /\ ~doc_op_.end
        /\ pc' = "get_result"
        /\ fetch_log' = [fetch_log EXCEPT !.asked_eor = TRUE]
        /\ UNCHANGED <<has_data, status>>
  /\ UNCHANGED <<bindVars, doc_op_, cursor_, accumulated_row_count_, values,
                 isnulls, syscols, row_count, last, delivered, surfaced>>
  /\ UNCHANGED otherVars

\* A variant that asks for the next batch whatever the last one held.
KeepLoading(n) == "get_result"

\* A variant that leaves the loop after the first batch, empty or not
\* (an if instead of the while).
LoadOnce(n) == "decode"

\* Where the loop of Fetch goes after a batch of n rows was loaded.
AfterLoad(n) == IF n = 0 THEN "check_end" ELSE "decode"

\* PgDocData::LoadCache: the cursor and the row count of a batch.
LoadCache(ts, batch) == [cursor |-> EncodeRows(ts, batch), row_count |-> Len(batch)]

\* A variant that counts one row for each batch that leaves the loop.
CountOne(count, n) == count + 1

\* accumulated_row_count_ += row_count, after the loop.
Accumulate(count, n) == count + n

\* Fetch, body of the loop: doc_op_->GetResult(&row_batch_) and LoadCache.
FetchGetResult ==
  /\ pc = "get_result"
  /\ \/ \E e \in ExtErrors :
          /\ status' = e
          /\ pc' = AfterError("get_result")
          /\ fetch_log' = [fetch_log EXCEPT !.asked_batch = TRUE]
          /\ UNCHANGED <<doc_op_, cursor_, accumulated_row_count_, row_count,
                         delivered>>
     \/ \E batch \in BatchesOf(targets_, MaxRows - Len(delivered)), e \in BOOLEAN :
          LET c == LoadCache(targets_, batch)
          IN /\ doc_op_' = [doc_op_ EXCEPT !.end = e]
             /\ delivered' = delivered \o batch
             /\ cursor_' = c.cursor
             /\ row_count' = c.row_count
             /\ pc' = AfterLoad(c.row_count)
             /\ accumulated_row_count_' =
                  IF c.row_count = 0 THEN accumulated_row_count_
                  ELSE Accumulate(accumulated_row_count_, c.row_count)
             /\ fetch_log' = [fetch_log EXCEPT !.asked_batch = TRUE,
                                !.empty_batch = @ \/ (c.row_count = 0)]
             /\ UNCHANGED status
  /\ UNCHANGED <<bindVars, values, isnulls, syscols, has_data, last, surfaced>>
  /\ UNCHANGED otherVars

\* Fetch, after the loop: *has_data = true and WritePgTuple.
FetchDecode ==
  /\ pc = "decode"
  /\ \E t \in {WritePgTuple(targets_,
                     [cursor |-> cursor_, values |-> values, isnulls |-> isnulls,
                      syscols |-> syscols, row |-> <<>>, err |-> "OK"])} :
        /\ has_data' = TRUE
        /\ cursor_' = t.cursor
        /\ values' = t.values
        /\ isnulls' = t.isnulls
        /\ syscols' = t.syscols
        /\ status' = t.err
        /\ surfaced' = IF t.err = "OK" THEN Append(surfaced, t.row) ELSE surfaced
        /\ fetch_log' = [fetch_log EXCEPT
                           !.consumed = Len(cursor_) - Len(t.cursor),
                           !.misaligned = (t.err # "OK")]
  /\ pc' = "idle"
  /\ UNCHANGED <<bindVars, doc_op_, accumulated_row_count_, row_count, last,
                 delivered>>
  /\ UNCHANGED otherVars

-----------------------------------------------------------------------------
(* YBCIndexExecuteSelect (access/ybc/ybcin.c): the select of one row by its *)
(* row identifier, as a caller of the statement's API.  Each API call may   *)
(* return an error status, which HandleYBStatus / HandleYBStmtStatus raise: *)
(* the function then does not return.                                       *)

\* Most user columns of a relation.
MaxAtts == 2

\* ObjectIdAttributeNumber
ObjectIdAttributeNumber == -2

\* InvalidOid
InvalidOid == 0

\* The relations a caller passes: RelationGetForm(relation)->relhasoids and
\* RelationGetDescr(relation)->natts.
SelRelations == [relhasoids : BOOLEAN, natts : 0..MaxAtts]

\* HeapTuple tuple = NULL
NoTuple == [null |-> TRUE]

InitSel ==
  [pc |-> "none", relhasoids |-> FALSE, natts |-> 0, attnum |-> 0,
   calls |-> <<>>, has_data |-> FALSE,
   syscols |-> [oid |-> InvalidOid, ybctid |-> <<>>],
   tuple |-> NoTuple, result |-> NoTuple]

\* One API call on the statement, with its attribute number (0: none) and
\* whether it returned OK.
SelCall(op, attr, ok) == [op |-> op, attr |-> attr, ok |-> ok]

\* The call is made; an error status is raised, OK goes on at next.
SelAfterCall(op, attr, ok, next) ==
  [sel EXCEPT !.calls = Append(@, SelCall(op, attr, ok)),
              !.pc = IF ok THEN next ELSE "raised"]

\* A variant that appends the object-id target for every relation.
OidTargetAlways(relhasoids) == TRUE

\* if (RelationGetForm(relation)->relhasoids)
OidTarget(relhasoids) == relhasoids

\* for (attnum = 1; attnum <= tupdesc->natts; attnum++): the loop test.
AttrLoop(attnum, natts) == IF attnum <= natts THEN "attrs" ELSE "ybctid"

\* YBCPgNewSelect: a new call of YBCIndexExecuteSelect creates its statement.
SelNewSelect ==
  /\ sel.pc \in {"none", "returned", "raised"}
  /\ \E rel \in SelRelations, ok \in BOOLEAN :
       sel' = [InitSel EXCEPT !.relhasoids = rel.relhasoids, !.natts = rel.natts,
                              !.calls = <<SelCall("NewSelect", 0, ok)>>,
                              !.pc = IF ok THEN "bind" ELSE "raised"]
  /\ UNCHANGED <<pgVars, sar, rpc>>

\* YBCNewConstant and YBCPgDmlBindColumn(YBTupleIdAttributeNumber), then the
\* test of relhasoids.
SelBindColumn ==
  /\ sel.pc = "bind"
  /\ \E ok \in BOOLEAN :
       sel' = [SelAfterCall("BindColumn", YBTupleId, ok,
                            IF OidTarget(sel.relhasoids) THEN "oid"
                            ELSE AttrLoop(1, sel.natts))
                 EXCEPT !.attnum = 1]
  /\ UNCHANGED <<pgVars, sar, rpc>>

\* YBCPgDmlAppendTarget of the object-id column reference.
SelOidTarget ==
  /\ sel.pc = "oid"
  /\ \E ok \in BOOLEAN :
       sel' = SelAfterCall("AppendTarget", ObjectIdAttributeNumber, ok,
                           AttrLoop(1, sel.natts))
  /\ UNCHANGED <<pgVars, sar, rpc>>

\* The body of the loop: YBCPgDmlAppendTarget of the column attnum.
SelAttrTarget ==
  /\ sel.pc = "attrs"
  /\ \E ok \in BOOLEAN :
       sel' = [SelAfterCall("AppendTarget", sel.attnum, ok,
                            AttrLoop(sel.attnum + 1, sel.natts))
                 EXCEPT !.attnum = @ + 1]
  /\ UNCHANGED <<pgVars, sar, rpc>>

\* YBCPgDmlAppendTarget of the row-identifier column reference.
SelYbctidTarget ==
  /\ sel.pc = "ybctid"
  /\ \E ok \in BOOLEAN :
       sel' = SelAfterCall("AppendTarget", YBTupleId, ok, "exec")
  /\ UNCHANGED <<pgVars, sar, rpc>>

\* YBCPgExecSelect
SelExecSelect ==
  /\ sel.pc = "exec"
  /\ \E ok \in BOOLEAN : sel' = SelAfterCall("ExecSelect", 0, ok, "fetch")
  /\ UNCHANGED <<pgVars, sar, rpc>>

\* The system columns a Fetch may leave behind.
SelSysCols == [oid : {InvalidOid, 5}, ybctid : {<<>>, <<7, 9>>}]

\* tuple = NULL, has_data = false, and YBCPgDmlFetch of one row.
SelFetch ==
  /\ sel.pc = "fetch"
  /\ \E ok \in BOOLEAN, h \in BOOLEAN, sys \in SelSysCols :
       sel' = [SelAfterCall("Fetch", 0, ok, "form")
                 EXCEPT !.has_data = (ok /\ h), !.syscols = sys]
  /\ UNCHANGED <<pgVars, sar, rpc>>

\* A variant that forms a tuple whatever Fetch reported.
AlwaysTuple(h) == TRUE

\* if (has_data)
FormTuple(h) == h

\* heap_form_tuple and the system columns of the tuple; values and nulls
\* are freed.
SelFormTuple ==
  /\ sel.pc = "form"
  /\ sel' = [sel EXCEPT
               !.tuple = IF FormTuple(sel.has_data)
                           THEN [null |-> FALSE,
                                 oid_set |-> sel.syscols.oid # InvalidOid,
                                 oid |-> IF sel.syscols.oid # InvalidOid
                                           THEN sel.syscols.oid ELSE InvalidOid,
                                 ybctid_set |-> sel.syscols.ybctid # <<>>,
                                 t_ybctid |-> IF sel.syscols.ybctid # <<>>
                                                THEN sel.syscols.ybctid ELSE <<>>]
                           ELSE NoTuple,
               !.pc = "delete"]
  /\ UNCHANGED <<pgVars, sar, rpc>>

\* YBCPgDeleteStatement and return tuple.
SelDeleteStatement ==
  /\ sel.pc = "delete"
  /\ \E ok \in BOOLEAN :
       sel' = [SelAfterCall("DeleteStatement", 0, ok, "returned")
                 EXCEPT !.result = IF ok THEN sel.tuple ELSE NoTuple]
  /\ UNCHANGED <<pgVars, sar, rpc>>

NextSelect ==
  \/ SelNewSelect
  \/ SelBindColumn
  \/ SelOidTarget
  \/ SelAttrTarget
  \/ SelYbctidTarget
  \/ SelExecSelect
  \/ SelFetch
  \/ SelFormTuple
  \/ SelDeleteStatement

-----------------------------------------------------------------------------
(* KeyValueTableTest::SelectAllRows (client/ql-dml-test-base.cc): one read  *)
(* operation per hash partition of the table.                               *)

\* The largest hash code (uint16_t).
MaxHashCode == 65535

\* The hash codes at which a table may be split into partitions.
SarSplitCodes == {1, 2, 256, MaxHashCode}

\* The hash codes of the rows the table holds.
SarRowCodes == {0, 1, 2, 255, 256, 257, MaxHashCode - 1, MaxHashCode}

\* A partition start key: the two bytes of its hash code, most significant
\* first.
Store16(code) == <<code \div 256, code % 256>>

\* BigEndian::Load16
Load16(key) == key[1] * 256 + key[2]

Least(S) == CHOOSE x \in S : \A y \in S : x <= y

RECURSIVE StartKeys(_)
StartKeys(S) ==
  IF S = {} THEN <<>> ELSE <<Store16(Least(S))>> \o StartKeys(S \ {Least(S)})

\* table()->GetPartitions(): the start keys of the partitions in order; the
\* first partition starts at the empty key.
GetPartitions(splits) == <<<<>>>> \o StartKeys(splits)

InitSar ==
  [pc |-> "idle", partitions |-> <<>>, i |-> 0, prev_code |-> 0, ops |-> <<>>,
   result |-> {}]

\* table_.NewReadOp(): a request with neither bound set.
NewReadOp == [has_hash_code |-> FALSE, hash_code |-> 0,
              has_max_hash_code |-> FALSE, max_hash_code |-> 0]

\* The rows a read operation returns: those whose hash code is within the
\* bounds the request sets.
InRange(h, req) ==
  /\ (req.has_hash_code => req.hash_code <= h)
  /\ (req.has_max_hash_code => h <= req.max_hash_code)

\* One iteration of the loop over the partitions: the request built for this
\* partition, the new prev_code, and whether the iteration is skipped.
SarIteration(partition, prev_code) ==
  LET req1 == IF prev_code # 0
                THEN [NewReadOp EXCEPT !.has_hash_code = TRUE, !.hash_code = prev_code]
                ELSE NewReadOp
  IN IF Len(partition) = 2
       THEN [req  |-> [req1 EXCEPT !.has_max_hash_code = TRUE,
                                   !.max_hash_code = Load16(partition) - 1],
             prev |-> Load16(partition), skip |-> FALSE]
       ELSE [req |-> req1, prev |-> prev_code, skip |-> (prev_code = 0)]

\* The call starts: partitions, with the upper bound of the last one pushed.
SarBegin ==
  /\ sar.pc \in {"idle", "done", "failed"}
  /\ \E splits \in SUBSET SarSplitCodes :
       sar' = [InitSar EXCEPT !.pc = "loop", !.i = 1,
                              !.partitions = Append(GetPartitions(splits), <<>>)]
  /\ UNCHANGED <<pgVars, sel, rpc>>

\* One partition of the loop; session->Apply may fail.
SarApply ==
  /\ sar.pc = "loop"
  /\ sar.i <= Len(sar.partitions)
  /\ LET it == SarIteration(sar.partitions[sar.i], sar.prev_code)
     IN IF it.skip
          THEN sar' = [sar EXCEPT !.i = @ + 1, !.prev_code = it.prev]
          ELSE \E ok \in BOOLEAN :
                 sar' = [sar EXCEPT !.i = @ + 1, !.prev_code = it.prev,
                                    !.ops = Append(@, it.req),
                                    !.pc = IF ok THEN "loop" ELSE "failed"]
  /\ UNCHANGED <<pgVars, sel, rpc>>

\* session->Flush() after the loop.
SarFlush ==
  /\ sar.pc = "loop"
  /\ sar.i > Len(sar.partitions)
  /\ \E ok \in BOOLEAN : sar' = [sar EXCEPT !.pc = IF ok THEN "collect" ELSE "failed"]
  /\ UNCHANGED <<pgVars, sel, rpc>>

\* The rows of every operation go into the result; CheckOp may fail.
SarCollect ==
  /\ sar.pc = "collect"
  /\ \E ok \in BOOLEAN :
       sar' = IF ok
                THEN [sar EXCEPT !.pc = "done",
                        !.result = {h \in SarRowCodes :
                                      \E j \in 1..Len(sar.ops) : InRange(h, sar.ops[j])}]
                ELSE [sar EXCEPT !.pc = "failed"]
  /\ UNCHANGED <<pgVars, sel, rpc>>

NextSelectAll == SarBegin \/ SarApply \/ SarFlush \/ SarCollect

-----------------------------------------------------------------------------
(* MasterTabletServiceImpl::GetTabletOrRespond (master/master_tablet_service.cc) *)
(* as the handler threads of the master run it.                             *)

\* The threads that serve read requests.
RpcThreads == {1, 2}

IdleRequest ==
  [pc |-> "idle", initialized |-> FALSE, leader |-> FALSE, owns_lock |-> FALSE,
   responses |-> <<>>, tablet |-> "unset", ret |-> "none", looked_up |-> FALSE,
   found |-> FALSE]

\* writer: the leader lock is held exclusively (the catalog is being
\* loaded); readers: how many hold it shared.
InitRpc == [writer |-> FALSE, readers |-> 0, req |-> [t \in RpcThreads |-> IdleRequest]]

\* CheckIsInitializedAndIsLeaderOrRespondTServer: is the catalog manager
\* initialized and this master the leader, with the leader lock held?
CheckIsInitializedAndIsLeader(l) == l.initialized /\ l.leader /\ l.owns_lock

\* ~ScopedLeaderSharedLock
Unlock(r, owns) == IF owns THEN r.readers - 1 ELSE r.readers

\* A variant that returns without a response when the tablet is not found.
NoResponse(responses) == responses

\* error->set_code(TABLET_NOT_FOUND); context->RespondSuccess()
RespondNotFound(responses) == Append(responses, "success:TABLET_NOT_FOUND")

\* A request arrives and ScopedLeaderSharedLock l is constructed: the lock
\* is taken shared unless it is held exclusively.
RpcLock(t) ==
  /\ rpc.req[t].pc \in {"idle", "returned"}
  /\ \E init \in BOOLEAN, lead \in BOOLEAN :
       rpc' = [rpc EXCEPT
                 !.readers = IF rpc.writer THEN @ ELSE @ + 1,
                 !.req[t] = [IdleRequest EXCEPT !.pc = "check",
                                                !.initialized = init,
                                                !.leader = lead,
                                                !.owns_lock = ~rpc.writer]]
  /\ UNCHANGED <<pgVars, sel, sar>>

\* if (!l.CheckIsInitializedAndIsLeaderOrRespondTServer(resp, context))
\*   return false;
RpcCheck(t) ==
  /\ rpc.req[t].pc = "check"
  /\ rpc' = IF CheckIsInitializedAndIsLeader(rpc.req[t])
              THEN [rpc EXCEPT !.req[t].pc = "lookup"]
              ELSE [rpc EXCEPT
                      !.req[t].responses = Append(@, "leader_check_failed"),
                      !.req[t].ret = "false",
                      !.req[t].pc = "returned",
                      !.req[t].owns_lock = FALSE,
                      !.readers = Unlock(rpc, rpc.req[t].owns_lock)]
  /\ UNCHANGED <<pgVars, sel, sar>>

\* GetSystemTablet(req->tablet_id()) and the two ways out of the function.
RpcLookup(t) ==
  /\ rpc.req[t].pc = "lookup"
  /\ \E found \in BOOLEAN :
       rpc' = [rpc EXCEPT
                 !.req[t].looked_up = TRUE,
                 !.req[t].found = found,
                 !.req[t].responses = IF found THEN @ ELSE RespondNotFound(@),
                 !.req[t].tablet = IF found THEN "set" ELSE @,
                 !.req[t].ret = IF found THEN "true" ELSE "false",
                 !.req[t].pc = "returned",
                 !.req[t].owns_lock = FALSE,
                 !.readers = Unlock(rpc, rpc.req[t].owns_lock)]
  /\ UNCHANGED <<pgVars, sel, sar>>

\* The catalog manager takes the leader lock exclusively while no request
\* holds it, and gives it back.
RpcLoader ==
  /\ \/ /\ ~rpc.writer /\ rpc.readers = 0
        /\ rpc' = [rpc EXCEPT !.writer = TRUE]
     \/ /\ rpc.writer
        /\ rpc' = [rpc EXCEPT !.writer = FALSE]
  /\ UNCHANGED <<pgVars, sel, sar>>

NextRpc ==
  \/ \E t \in RpcThreads : RpcLock(t)
  \/ \E t \in RpcThreads : RpcCheck(t)
  \/ \E t \in RpcThreads : RpcLookup(t)
  \/ RpcLoader

-----------------------------------------------------------------------------
(* Specifications *)

Init ==
  /\ columns = InitColumns
  /\ targets_ = <<>>
  /\ expr_binds_ = EmptyMap
  /\ expr_assigns_ = EmptyMap
  /\ pbs = [x \in {} |-> EmptyPB]
  /\ ybctid_bind_ = 0
  /\ column_refs = <<>>
  /\ doc_op_ = [executed |-> FALSE, end |-> FALSE]
  /\ cursor_ = <<>>
  /\ accumulated_row_count_ = 0
  /\ values = [i \in 0..(NAtts - 1) |-> [num |-> 0, bytes |-> <<>>]]
  /\ isnulls = [i \in 0..(NAtts - 1) |-> FALSE]
  /\ syscols = [oid |-> 99, ybctid |-> <<9>>]
  /\ has_data = FALSE
  /\ status = "OK"
  /\ pc = "idle"
  /\ row_count = 0
  /\ last = "new"
  /\ fetch_log = NewLog
  /\ delivered = <<>>
  /\ surfaced = <<>>
  /\ sel = InitSel
  /\ sar = InitSar
  /\ rpc = InitRpc

\* The statement as a fetching caller drives it: targets, execution, Fetch.
NextFetch ==
  \/ \E t \in TargetExprs : \E ok \in PrepOutcomes(t) : AppendTarget(t, ok)
  \/ Exec
  \/ FetchBegin
  \/ FetchEndOfResult
  \/ FetchGetResult
  \/ FetchDecode

SpecFetch == Init /\ [][NextFetch]_vars

\* The producer makes progress: GetResult delivers a batch with a row, or
\* the producer has reached the end of its result.
ProducerProgress ==
  FetchGetResult /\ (row_count' > 0 \/ doc_op_'.end)

\* SpecFetch with a Fetch call that keeps running once started, and a
\* producer that does not deliver empty batches forever without reaching
\* the end of its result.
SpecFetchLive ==
  /\ SpecFetch
  /\ WF_vars(FetchEndOfResult)
  /\ WF_vars(FetchDecode)
  /\ SF_vars(ProducerProgress)

\* The statement as a writing caller (UPDATE) drives it: binds, assigns and
\* the evaluation of the bound and assigned expressions.
NextBind ==
  \/ \E a \in BindAttrs, e \in ValueExprs : \E ok \in PrepOutcomes(e) : BindColumn(a, e, ok)
  \/ \E a \in AssignAttrs, e \in ValueExprs : \E ok \in PrepOutcomes(e) : AssignColumn(a, e, ok)
  \/ UpdateBindPBs
  \/ UpdateAssignPBs
  \/ ClearBinds

SpecBind == Init /\ [][NextBind]_vars

\* Attribute numbers and expressions of a statement under preparation: a
\* column may be bound or assigned a constant or a column reference.
PrepareAttrs == {1, YBTupleId}
PrepareExprs == {Const("int32", 10), ColRef(1), ColRef(YBTupleId)}

\* Targets of a statement under preparation.
PrepareTargets == {ColRef(2), ColRef(YBTupleId)}

\* The statement as its preparation drives it: targets, binds, assignments
\* and the projection list computed from them.
NextPrepare ==
  \/ \E t \in PrepareTargets : AppendTarget(t, TRUE)
  \/ \E a \in PrepareAttrs, e \in PrepareExprs : BindColumn(a, e, TRUE)
  \/ \E a \in PrepareAttrs, e \in PrepareExprs : AssignColumn(a, e, TRUE)
  \/ SetColumnRefIds

SpecPrepare == Init /\ [][NextPrepare]_vars

\* Targets, bound and assigned expressions of a statement that is prepared
\* once and executed: an operator's Eval may fail.
ExecTargets == {ColRef(1)}
ExecBind    == Oper("int32", 50)
ExecAssign  == Oper("int32", 50)

\* The statement from preparation to the end of its result: targets, a
\* bind and an assignment, their evaluation, execution and Fetch.
NextExec ==
  \/ \E t \in ExecTargets : AppendTarget(t, TRUE)
  \/ BindColumn(1, ExecBind, TRUE)
  \/ AssignColumn(1, ExecAssign, TRUE)
  \/ UpdateBindPBs
  \/ UpdateAssignPBs
  \/ Exec
  \/ FetchBegin
  \/ FetchEndOfResult
  \/ FetchGetResult
  \/ FetchDecode

SpecExec == Init /\ [][NextExec]_vars

\* One call after another of YBCIndexExecuteSelect.
SpecSelect == Init /\ [][NextSelect]_vars

\* One call after another of SelectAllRows, on tables of any partitioning.
SpecSelectAll == Init /\ [][NextSelectAll]_vars

\* The handler threads of the master and the loader of its catalog.
SpecRpc == Init /\ [][NextRpc]_vars

Next ==
  \/ NextFetch \/ NextBind \/ NextPrepare \/ NextExec
  \/ NextSelect \/ NextSelectAll \/ NextRpc

Spec == Init /\ [][Next]_vars

-----------------------------------------------------------------------------
(* Properties of Fetch (checked under SpecFetch) *)

\* A Fetch call has returned successfully.
FetchReturned == pc = "idle" /\ last = "Fetch" /\ status = "OK"

\* C1: Fetch never treats an empty batch as end-of-result.  A Fetch that
\* returns has_data = false has seen EndOfResult() return true in that very
\* call; after a zero-row batch the loop goes on (back to EndOfResult, which
\* said false before every batch request), so a Fetch that started with an
\* empty cursor decodes only after a batch with at least one row.
C1_EmptyBatchIsNotEnd ==
  /\ (FetchReturned /\ ~has_data) => fetch_log.eor_true
  /\ (pc = "decode" /\ fetch_log.start_empty) => row_count > 0
  /\ (FetchReturned /\ has_data /\ fetch_log.start_empty) => row_count > 0
  /\ (pc = "check_end" /\ fetch_log.asked_batch) => fetch_log.empty_batch
  /\ (pc = "get_result") => ~doc_op_.end

\* A Fetch that met an empty batch and then end-of-result.
C1_Witness == FetchReturned /\ ~has_data /\ fetch_log.empty_batch /\ fetch_log.eor_true

\* C2: with unread bytes in the cursor at its start, Fetch consults neither
\* EndOfResult nor GetResult and decodes a row from the buffered bytes; it
\* never returns has_data = false while unread bytes remain.
C2_BufferedRowsFirst ==
  /\ (last = "Fetch" /\ ~fetch_log.start_empty) =>
        /\ ~fetch_log.asked_eor
        /\ ~fetch_log.asked_batch
        /\ pc \in {"decode", "idle"}
  /\ (pc = "idle" /\ last = "Fetch" /\ ~fetch_log.start_empty) =>
        /\ has_data
        /\ status \in {"OK", "InternalError"}
        /\ status = "OK" => fetch_log.consumed > 0
  /\ (FetchReturned /\ ~has_data) => cursor_ = <<>>

\* A Fetch that found buffered bytes and decoded a row from them.
C2_Witness ==
  FetchReturned /\ ~fetch_log.start_empty /\ has_data /\ fetch_log.consumed > 0

\* C3 as stated: a Fetch that reports has_data = true has consumed at least
\* one byte of the cursor, for every target list, the empty one included.
C3_DataConsumesBytes == (FetchReturned /\ has_data) => fetch_log.consumed > 0

\* C3 amended: a Fetch that reports has_data = true has consumed at least one
\* byte of the cursor, for every target list that is not empty.
C3_DataConsumesBytesOfTargets ==
  (FetchReturned /\ has_data /\ targets_ # <<>>) =>
     /\ fetch_log.consumed > 0
     /\ fetch_log.consumed >= Len(targets_)

\* A row of two targets was decoded from the cursor.
C3_Witness ==
  /\ FetchReturned /\ has_data
  /\ Len(targets_) = 2
  /\ fetch_log.consumed >= 2

\* s is an initial part of t.
IsPrefix(s, t) == Len(s) <= Len(t) /\ SubSeq(t, 1, Len(s)) = s

\* C4: the rows surfaced by the successful Fetch calls are the rows delivered
\* by the producer, in delivery order, none skipped: a new batch is requested
\* only when every delivered row has been surfaced, and so is the end of the
\* result reported.
C4_RowsInOrder ==
  /\ IsPrefix(surfaced, delivered)
  /\ pc = "get_result" => surfaced = delivered
  /\ (FetchReturned /\ ~has_data) => surfaced = delivered

\* C5: when Fetch returns has_data = false every null indicator says null
\* and the system columns are zeroed, whatever earlier calls wrote.
C5_NoDataLeavesNulls ==
  (FetchReturned /\ ~has_data) =>
     /\ \A i \in 0..(NAtts - 1) : isnulls[i] = TRUE
     /\ syscols = [oid |-> 0, ybctid |-> <<>>]

\* End of result reported after an earlier Fetch had written non-null values.
C5_Witness ==
  /\ FetchReturned /\ ~has_data
  /\ \E i \in 1..Len(surfaced) : \E j \in 1..Len(surfaced[i]) : ~surfaced[i][j].isnull
  /\ \E i \in 0..(NAtts - 1) : values[i] # [num |-> 0, bytes |-> <<>>]

-----------------------------------------------------------------------------
(* Properties of binding and assignment (checked under SpecBind) *)

\* The column's assign slot holds an expression: it was successfully assigned.
AlreadyAssigned(a) == columns[a].assign_pb \in DOMAIN expr_assigns_

\* The column's bind slot holds an expression: it was successfully bound.
AlreadyBound(a) == columns[a].bind_pb \in DOMAIN expr_binds_

\* The protobuf holds the value of the expression.
Holds(pb, e) == pb.has_value /\ pb.value = e.val

\* A successful UpdateAssignPBs step leaves in every slot of the assign map
\* the value of the expression recorded for it.
AssignsEvaluated ==
  (UpdateAssignPBs /\ status' = "OK") =>
     \A s \in DOMAIN expr_assigns_ : Holds(pbs'[s], expr_assigns_[s])

\* A successful UpdateBindPBs step leaves in every slot of the bind map the
\* value of the expression recorded for it.
BindsEvaluated ==
  (UpdateBindPBs /\ status' = "OK") =>
     \A s \in DOMAIN expr_binds_ : Holds(pbs'[s], expr_binds_[s])

\* C6 as stated: an AssignColumn on an attribute that is already assigned
\* fails with InvalidArgument and leaves the assign map unchanged.
C6_SecondAssignConflict ==
  [][\A a \in AssignAttrs, e \in ValueExprs, ok \in BOOLEAN :
       (FindColumn(a) /\ AlreadyAssigned(a) /\ AssignColumn(a, e, ok)) =>
          (status' = "InvalidArgument" /\ expr_assigns_' = expr_assigns_)]_vars

\* C6 amended: an AssignColumn on an attribute that is already assigned
\* fails, with Corruption when the expression's type does not pass the type
\* check and with InvalidArgument otherwise, and leaves the assign map, the
\* slots and the columns unchanged; UpdateAssignPBs then evaluates the
\* expression of the first call.
C6_SecondAssignRejected ==
  [][/\ \A a \in AssignAttrs, e \in ValueExprs, ok \in BOOLEAN :
          (FindColumn(a) /\ AlreadyAssigned(a) /\ AssignColumn(a, e, ok)) =>
             /\ status' = IF Catalog[a].type # "binary" /\ Catalog[a].type # e.type
                            THEN "Corruption" ELSE "InvalidArgument"
             /\ expr_assigns_' = expr_assigns_
             /\ pbs' = pbs
             /\ columns' = columns
     /\ AssignsEvaluated]_vars

\* A second AssignColumn was rejected as a conflict.
C6_Witness ==
  /\ last = "AssignColumn" /\ status = "InvalidArgument"
  /\ \E a \in DOMAIN Catalog : AlreadyAssigned(a)

\* C7 as stated: a BindColumn with a matching type and a successful
\* preparation succeeds, on a bound column as well, and leaves exactly one
\* entry for the column's slot, holding the expression of this call.
C7_SecondBindOverwrites ==
  [][\A a \in BindAttrs, e \in ValueExprs :
       (FindColumn(a) /\ Catalog[a].type = e.type /\ BindColumn(a, e, TRUE)) =>
          /\ status' = "OK"
          /\ AlreadyBound(a)'
          /\ expr_binds_'[columns'[a].bind_pb] = e
          /\ AlreadyBound(a) => DOMAIN expr_binds_' = DOMAIN expr_binds_]_vars

\* C7 amended: as stated, provided that an expression bound to the
\* row-identifier attribute is a constant; UpdateBindPBs then evaluates the
\* expression of the latest call.
C7_SecondBindOverwritesConst ==
  [][/\ \A a \in BindAttrs, e \in ValueExprs :
          (/\ FindColumn(a) /\ Catalog[a].type = e.type
           /\ (a = YBTupleId => is_constant(e))
           /\ BindColumn(a, e, TRUE)) =>
             /\ status' = "OK"
             /\ AlreadyBound(a)'
             /\ expr_binds_'[columns'[a].bind_pb] = e
             /\ AlreadyBound(a) => DOMAIN expr_binds_' = DOMAIN expr_binds_
     /\ BindsEvaluated]_vars

\* A column was bound again after its first expression had been evaluated:
\* the slot still encodes the old value under the new expression.
C7_Witness ==
  /\ last = "BindColumn" /\ status = "OK"
  /\ \E a \in DOMAIN Catalog :
       /\ AlreadyBound(a)
       /\ pbs[columns[a].bind_pb].has_value
       /\ pbs[columns[a].bind_pb].value # expr_binds_[columns[a].bind_pb].val

\* C8: rebind stability.  A column keeps the bind slot it has; a BindColumn
\* on a column that has a slot allocates nothing, does not add an entry to
\* the bind map when the slot has one, and touches no other slot;
\* UpdateBindPBs changes nothing but the values encoded in the slots.
C8_RebindKeepsSlot ==
  [][/\ \A a \in DOMAIN Catalog :
          columns[a].bind_pb # NoSlot => columns'[a].bind_pb = columns[a].bind_pb
     /\ \A a \in BindAttrs, e \in ValueExprs, ok \in BOOLEAN :
          (FindColumn(a) /\ columns[a].bind_pb # NoSlot /\ BindColumn(a, e, ok)) =>
             /\ DOMAIN pbs' = DOMAIN pbs
             /\ AlreadyBound(a) => DOMAIN expr_binds_' = DOMAIN expr_binds_
             /\ \A s \in DOMAIN expr_binds_ :
                  s # columns[a].bind_pb => expr_binds_'[s] = expr_binds_[s]
             /\ \A s \in DOMAIN pbs : s # columns[a].bind_pb => pbs'[s] = pbs[s]
             /\ pbs'[columns[a].bind_pb].column_id = pbs[columns[a].bind_pb].column_id
     /\ UpdateBindPBs =>
          /\ DOMAIN pbs' = DOMAIN pbs
          /\ \A s \in DOMAIN pbs : pbs'[s].column_id = pbs[s].column_id]_vars

\* Attribute 1 was bound to 10, evaluated, and bound again to 20: it has its
\* first slot, which still encodes 10.
C8_Witness ==
  /\ last = "BindColumn" /\ status = "OK"
  /\ columns[1].bind_pb = [kind |-> "bind", n |-> 1, gen |-> 1]
  /\ AlreadyBound(1)
  /\ expr_binds_[columns[1].bind_pb] = Const("int32", 20)
  /\ pbs[columns[1].bind_pb].value = 10

\* C9: after a successful UpdateBindPBs (UpdateAssignPBs) every slot of the
\* bind (assign) map holds the value of the expression most recently
\* recorded for it.
C9_UpdateEvaluatesCurrent ==
  /\ (last = "UpdateBindPBs" /\ status = "OK") =>
        \A s \in DOMAIN expr_binds_ : Holds(pbs[s], expr_binds_[s])
  /\ (last = "UpdateAssignPBs" /\ status = "OK") =>
        \A s \in DOMAIN expr_assigns_ : Holds(pbs[s], expr_assigns_[s])

\* Attribute 1 is bound to 20 and its slot encodes 20 after UpdateBindPBs,
\* with an assignment recorded as well.
C9_Witness ==
  /\ last = "UpdateBindPBs" /\ status = "OK"
  /\ AlreadyBound(1)
  /\ expr_binds_[columns[1].bind_pb] = Const("int32", 20)
  /\ pbs[columns[1].bind_pb].value = 20
  /\ expr_assigns_ # EmptyMap

\* The one sanctioned pair of different types: text-like and binary-like.
TextBinaryPair(t1, t2) == {t1, t2} = {"string", "binary"}

\* C10: BindColumn and AssignColumn fail with Corruption, changing nothing,
\* whenever the expression's type differs from the column's type and the two
\* are not the text-like / binary-like pair.
C10_TypeMismatchRejected ==
  [][/\ \A a \in BindAttrs, e \in ValueExprs, ok \in BOOLEAN :
          (/\ FindColumn(a) /\ Catalog[a].type # e.type
           /\ ~TextBinaryPair(Catalog[a].type, e.type)
           /\ BindColumn(a, e, ok)) =>
             (status' = "Corruption" /\ UNCHANGED bindVars)
     /\ \A a \in AssignAttrs, e \in ValueExprs, ok \in BOOLEAN :
          (/\ FindColumn(a) /\ Catalog[a].type # e.type
           /\ ~TextBinaryPair(Catalog[a].type, e.type)
           /\ AssignColumn(a, e, ok)) =>
             (status' = "Corruption" /\ UNCHANGED bindVars)]_vars

\* C11: binding the row-identifier attribute fails when the expression is
\* not a constant, leaving the side field as it was; when the expression is a
\* constant the bind succeeds and the side field holds that constant's bytes,
\* so after several binds it holds the bytes of the most recent one.
C11_YbctidBindCaptured ==
  [][\A e \in ValueExprs, ok \in BOOLEAN :
       BindColumn(YBTupleId, e, ok) =>
          /\ ~is_constant(e) => (status' # "OK" /\ ybctid_bind_' = ybctid_bind_)
          /\ is_constant(e) => (status' = "OK" /\ ybctid_bind_' = e.val)]_vars

\* The row identifier was bound to 10, evaluated, and bound again to 40: the
\* side field holds 40 while the slot still encodes 10.
C11_Witness ==
  /\ last = "BindColumn" /\ status = "OK"
  /\ ybctid_bind_ = 40
  /\ columns[YBTupleId].bind_pb # NoSlot
  /\ pbs[columns[YBTupleId].bind_pb].value = 10

\* C12: ClearBinds can be called in every state of the statement, always
\* returns NotSupported and changes nothing of the statement.
C12_ClearBindsUnsupported ==
  /\ [](Alive => ENABLED ClearBinds)
  /\ [][ClearBinds => (status' = "NotSupported" /\ UNCHANGED <<bindVars, fetchVars>>)]_vars

\* ClearBinds was called on a statement that has binds and assignments.
C12_Witness ==
  /\ last = "ClearBinds" /\ status = "NotSupported"
  /\ expr_binds_ # EmptyMap
  /\ expr_assigns_ # EmptyMap

-----------------------------------------------------------------------------
(* Properties of the row counter and of decode errors (checked under SpecFetch) *)

C16_DecodeErrorNoData ==
  [][FetchDecode =>
       /\ (\E i \in 1..Len(targets_) : targets_[i].kind # "colref") =>
             status' = "InternalError"
       /\ status' # "OK" => ~has_data']_vars

\* The result is exhausted: the producer reports end-of-result, the cursor
\* is empty and no batch is being requested or decoded.
Exhausted ==
  /\ doc_op_.executed /\ doc_op_.end
  /\ cursor_ = <<>>
  /\ pc \in {"idle", "check_end"}

\* C19: exhausted is terminal.  A Fetch that returns has_data = false leaves
\* the result exhausted, and from an exhausted result every step leaves it
\* exhausted: no batch is requested, nothing is decoded, has_data is never
\* set to true, and a Fetch that returns successfully returns
\* has_data = false.
C19_ExhaustedIsTerminal ==
  /\ []((FetchReturned /\ ~has_data) => Exhausted)
  /\ [][Exhausted =>
          /\ Exhausted'
          /\ delivered' = delivered
          /\ surfaced' = surfaced
          /\ has_data' => has_data
          /\ (pc' = "idle" /\ last' = "Fetch" /\ status' = "OK") => ~has_data']_vars

\* A second Fetch has returned has_data = false after all rows of the
\* result were surfaced and the end was reported once already.
C19_Witness ==
  /\ FetchReturned /\ ~has_data
  /\ fetch_log.after_end
  /\ fetch_log.eor_true /\ ~fetch_log.asked_batch
  /\ Len(surfaced) = 2
  /\ accumulated_row_count_ = 2

\* C23: Fetch terminates.  With a producer that, after finitely many empty
\* batches, delivers a row or reaches its end, every Fetch call that has
\* started returns; and the loop of Fetch goes round again only after a
\* batch without rows from a producer that had not reported its end.
C23_FetchReturns ==
  /\ (pc # "idle") ~> (pc = "idle")
  /\ [][(pc = "get_result" /\ pc' = "check_end") =>
          (row_count' = 0 /\ ~doc_op_.end /\ cursor_' = <<>>)]_vars
  /\ [][(pc = "check_end" /\ pc' = "get_result") => ~doc_op_.end]_vars

\* A Fetch has returned a row after the producer delivered an empty batch.
C23_Witness ==
  /\ FetchReturned /\ has_data
  /\ fetch_log.empty_batch
  /\ fetch_log.consumed > 0

\* Some target refers to the column with this attribute number.
IsTarget(a) == \E i \in 1..Len(targets_) : targets_[i] = ColRef(a)

\* C22: each decoded value is written to the output position of its column
\* (index attr_num - 1), whatever the order of the targets: after a Fetch
\* that surfaced a row through column-reference targets, the outputs are
\* those of one stored row, a function of the row and of the set of target
\* columns only; columns that are not targets, and null values, stay null,
\* and the row identifier goes to the system columns.
C22_OutputByAttrNum ==
  (FetchReturned /\ has_data /\ \A i \in 1..Len(targets_) : targets_[i].kind = "colref") =>
     \E r \in TableRows :
        /\ \A a \in 1..NAtts :
             LET d == DataOf(ColRef(a), r)
             IN IF IsTarget(a) /\ ~d.isnull
                  THEN /\ ~isnulls[a - 1]
                       /\ values[a - 1] = [num |-> d.num, bytes |-> d.bytes]
                  ELSE isnulls[a - 1]
        /\ syscols.ybctid = IF IsTarget(YBTupleId)
                               THEN DataOf(ColRef(YBTupleId), r).bytes ELSE <<>>
        /\ syscols.oid = 0

\* The targets are the two user columns in reverse order, and the first
\* stored row was fetched: each value is at its column's position.
C22_Witness ==
  /\ FetchReturned /\ has_data
  /\ targets_ = <<ColRef(2), ColRef(1)>>
  /\ values[0] = [num |-> 1, bytes |-> <<>>]
  /\ values[1] = [num |-> 0, bytes |-> <<5>>]
  /\ isnulls = [i \in 0..(NAtts - 1) |-> FALSE]

-----------------------------------------------------------------------------
(* Properties of the projection list (checked under SpecPrepare) *)

\* The id of the column is in the projection list.
InRefs(a) == \E i \in 1..Len(column_refs) : column_refs[i] = Catalog[a].id

RequestedIds ==
  LET Requested(a) == columns[a].read_requested \/ columns[a].write_requested
      req == SelectSeq(ColumnOrder, Requested)
  IN [i \in 1..Len(req) |-> Catalog[req[i]].id]

\* C14: SetColumnRefIds leaves in the projection list exactly the ids of the
\* columns requested for read or write, each once and in catalog order,
\* whatever the list held before (a second call gives the same list); a
\* virtual column is never requested and its id is never in the list.
C14_RefIdsAreRequested ==
  /\ [](last = "SetColumnRefIds" => column_refs = RequestedIds)
  /\ [](\A a \in DOMAIN Catalog :
          Catalog[a].virtual =>
             /\ ~columns[a].read_requested
             /\ ~columns[a].write_requested
             /\ ~InRefs(a))
  /\ [][(SetColumnRefIds /\ last = "SetColumnRefIds") => column_refs' = column_refs]_vars
  /\ [][SetColumnRefIds => column_refs' = RequestedIds]_vars

\* The projection list holds a column requested for read and one requested
\* for write, recomputed over an older list, after the row identifier was
\* declared as a target, bound and assigned.
C14_Witness ==
  /\ last = "SetColumnRefIds"
  /\ column_refs = <<11, 12>>
  /\ columns[1].write_requested /\ ~columns[1].read_requested
  /\ columns[2].read_requested
  /\ AlreadyBound(YBTupleId)
  /\ AlreadyAssigned(YBTupleId)
  /\ \E i \in 1..Len(targets_) : targets_[i] = ColRef(YBTupleId)

-----------------------------------------------------------------------------
(* Properties of a prepared statement across executions (checked under SpecExec) *)

\* The loop over the map stopped at an entry whose Eval failed: that entry's
\* slot is as it was, and the call reports the error.
StoppedAtFailure(map) ==
  /\ status' = "RuntimeError"
  /\ \E s \in DOMAIN map : EvalMayFail(map[s]) /\ pbs'[s] = pbs[s]

\* C17: no retry.  An error of EndOfResult or GetResult ends the Fetch call
\* at once with that error: no batch is requested or loaded after it and
\* nothing is decoded; a failing Eval ends UpdateBindPBs / UpdateAssignPBs
\* with its error.  An error status is always the status of a call that has
\* returned.
C17_NoRetry ==
  /\ [](status \in ExtErrors => (pc = "idle" /\ last = "Fetch"))
  /\ [][\A e \in ExtErrors :
          ((FetchEndOfResult \/ FetchGetResult) /\ status' = e) =>
             /\ pc' = "idle"
             /\ UNCHANGED <<doc_op_, cursor_, delivered, surfaced, row_count,
                            accumulated_row_count_, has_data, values, bindVars>>]_vars
  /\ [][(UpdateBindPBs /\ status' # "OK") => StoppedAtFailure(expr_binds_)]_vars
  /\ [][(UpdateAssignPBs /\ status' # "OK") => StoppedAtFailure(expr_assigns_)]_vars

\* A Fetch that met an empty batch and then an error of the producer, on a
\* statement whose assigned expression was evaluated.
C17_Witness ==
  /\ pc = "idle" /\ last = "Fetch" /\ status = "TryAgain"
  /\ fetch_log.empty_batch
  /\ \E s \in DOMAIN expr_assigns_ : pbs[s].has_value

\* C18: UpdateBindPBs, UpdateAssignPBs and the steps of Fetch leave the
\* target list, the set of allocated slots, the column each slot is for,
\* the columns and the expressions of the bind and assign maps unchanged.
C18_StructureFixed ==
  [][(UpdateBindPBs \/ UpdateAssignPBs \/ FetchBegin \/ FetchEndOfResult
        \/ FetchGetResult \/ FetchDecode) =>
       /\ targets_' = targets_
       /\ DOMAIN pbs' = DOMAIN pbs
       /\ \A s \in DOMAIN pbs : pbs'[s].column_id = pbs[s].column_id
       /\ expr_binds_' = expr_binds_
       /\ expr_assigns_' = expr_assigns_
       /\ columns' = columns
       /\ ybctid_bind_' = ybctid_bind_]_vars

\* A row was fetched by a statement with a target, a bind and an
\* assignment whose values were evaluated into their slots.
C18_Witness ==
  /\ FetchReturned /\ has_data
  /\ Len(targets_) = 2
  /\ AlreadyBound(1) /\ pbs[columns[1].bind_pb].value = 50
  /\ AlreadyAssigned(1) /\ pbs[columns[1].assign_pb].value = 50
  /\ accumulated_row_count_ = 2

-----------------------------------------------------------------------------
(* Properties of YBCIndexExecuteSelect (checked under SpecSelect) *)

\* The attribute numbers of the AppendTarget calls made so far, in order.
SelTargets ==
  LET at == SelectSeq(sel.calls, LAMBDA c : c.op = "AppendTarget")
  IN [i \in 1..Len(at) |-> at[i].attr]

\* The positions in the call log of the calls of this operation.
SelCallsOf(op) == {i \in 1..Len(sel.calls) : sel.calls[i].op = op}

\* The target list the claim describes for the relation of the call.
SelExpectedTargets ==
  (IF sel.relhasoids THEN <<ObjectIdAttributeNumber>> ELSE <<>>)
    \o [i \in 1..sel.natts |-> i] \o <<YBTupleId>>

\* C24: the target list is built in a fixed order: the object-id target
\* first if and only if the relation declares oids, then the user columns
\* 1..natts in ascending order, the row identifier last; the row identifier
\* is bound as a constant before any target is appended, and the statement
\* is executed only after all targets were appended.
C24_TargetOrder ==
  /\ IsPrefix(SelTargets, SelExpectedTargets)
  /\ \A i \in SelCallsOf("AppendTarget") :
       /\ i > 2
       /\ sel.calls[2] = SelCall("BindColumn", YBTupleId, TRUE)
       /\ \A j \in SelCallsOf("ExecSelect") : i < j
  /\ SelCallsOf("ExecSelect") # {} => SelTargets = SelExpectedTargets
  /\ sel.pc = "returned" => SelTargets = SelExpectedTargets

\* A call has returned for a relation with oids and two user columns.
C24_Witness ==
  /\ sel.pc = "returned"
  /\ sel.relhasoids /\ sel.natts = 2
  /\ SelTargets = <<ObjectIdAttributeNumber, 1, 2, YBTupleId>>

\* C25: YBCIndexExecuteSelect fetches at most one row: a call that returns
\* has made exactly one Fetch, returns a tuple if and only if that Fetch
\* reported has_data, sets the tuple's row identifier from the fetched
\* system columns only when that is non-null, and has deleted its statement
\* exactly once, as its last call.
C25_OneRowOneDelete ==
  /\ Cardinality(SelCallsOf("Fetch")) <= 1
  /\ Cardinality(SelCallsOf("NewSelect")) <= 1
  /\ sel.pc = "returned" =>
       /\ Cardinality(SelCallsOf("Fetch")) = 1
       /\ (sel.result # NoTuple) <=> sel.has_data
       /\ sel.result # NoTuple =>
            /\ sel.result.ybctid_set <=> (sel.syscols.ybctid # <<>>)
            /\ sel.result.t_ybctid = sel.syscols.ybctid
       /\ SelCallsOf("DeleteStatement") = {Len(sel.calls)}
       /\ sel.calls[Len(sel.calls)].ok
  /\ sel.pc \notin {"returned", "raised"} => SelCallsOf("DeleteStatement") = {}

\* A call has returned a tuple whose row identifier was not set, the Fetch
\* having reported a row without one.
C25_Witness ==
  /\ sel.pc = "returned"
  /\ sel.result # NoTuple
  /\ ~sel.result.ybctid_set
  /\ sel.has_data

-----------------------------------------------------------------------------
(* Properties of AssignColumn after a failed call (checked under SpecBind) *)

\* C26: AssignColumn returns the conflict error for an attribute only if an
\* earlier AssignColumn on that attribute returned success: the conflict is
\* reported only for a column whose slot is in the assign map, and a slot
\* enters the assign map only in an AssignColumn on its column that returns
\* OK.  A call that failed leaves the map as it was.
C26_ConflictOnlyAfterSuccess ==
  [][\A a \in AssignAttrs :
       /\ (\E e \in ValueExprs, ok \in BOOLEAN :
             AssignColumn(a, e, ok) /\ status' = "InvalidArgument")
            => AlreadyAssigned(a)
       /\ (\E e \in ValueExprs, ok \in BOOLEAN :
             AssignColumn(a, e, ok) /\ status' # "OK")
            => expr_assigns_' = expr_assigns_
       /\ FindColumn(a) /\ ~AlreadyAssigned(a) /\ AlreadyAssigned(a)'
            => (\E e \in ValueExprs, ok \in BOOLEAN :
                  AssignColumn(a, e, ok) /\ status' = "OK")]_vars

\* An AssignColumn has failed in the preparation of its expression, after
\* the slot of the column was allocated: the column has a slot, the assign
\* map has no entry for it, and the next AssignColumn on it is not rejected.
C26_Witness ==
  /\ last = "AssignColumn" /\ status = "RuntimeError"
  /\ SlotAllocated(1) /\ ~AlreadyAssigned(1)
  /\ ENABLED (AssignColumn(1, Const("int32", 10), TRUE) /\ status' = "OK")

-----------------------------------------------------------------------------
(* Properties of AppendTarget after a failed preparation (checked under SpecFetch) *)

\* The slot allocated for the i-th target.
TargetSlot(i) == [kind |-> "target", n |-> i, gen |-> 1]

\* The target slots recorded in the bind map.
RecordedTargets == {s \in DOMAIN expr_binds_ : s.kind = "target"}

\* C27 as stated: every expression in the target list has its own slot
\* recorded in the bind map (target list length equals the number of target
\* slots recorded).
C27_EveryTargetRecorded == Len(targets_) = Cardinality(RecordedTargets)

\* C27 as amended: every AppendTarget call appends its expression to the
\* target list and allocates its slot; the slot is recorded in the bind map
\* exactly when the call returns OK, and nothing is rolled back when it does
\* not: the failed target stays in the list, which is what Fetch decodes.
C27_FailedTargetStays ==
  /\ [](/\ \A i \in 1..Len(targets_) : TargetSlot(i) \in DOMAIN pbs
        /\ RecordedTargets \subseteq {TargetSlot(i) : i \in 1..Len(targets_)}
        /\ \A s \in RecordedTargets : expr_binds_[s] = targets_[s.n])
  /\ [][\A t \in TargetExprs, ok \in BOOLEAN :
          AppendTarget(t, ok) =>
            /\ targets_' = Append(targets_, t)
            /\ (TargetSlot(Len(targets_')) \in DOMAIN expr_binds_') <=> (status' = "OK")
            /\ RecordedTargets \subseteq DOMAIN expr_binds_']_vars

\* A Fetch has decoded a row up to a target whose AppendTarget had failed:
\* the list holds two targets, the bind map only the first.
C27_Witness ==
  /\ pc = "idle" /\ last = "Fetch" /\ status = "InternalError"
  /\ Len(targets_) = 2
  /\ RecordedTargets = {TargetSlot(1)}
  /\ fetch_log.consumed > 0

\* C28: a Fetch whose decoding fails leaves the cursor at a row boundary:
\* when WritePgTuple returns an error because of a target that is not a
\* column reference, no byte of the current row has been consumed and no
\* output position has been written, wherever the target is in the list.
C28_FailedDecodeConsumesNothing ==
  [][(FetchDecode /\ status' = "InternalError") =>
       /\ cursor_' = cursor_
       /\ values' = values
       /\ isnulls' = isnulls
       /\ syscols' = syscols]_vars

-----------------------------------------------------------------------------
(* Properties of SelectAllRows (checked under SpecSelectAll) *)

\* The read operations cover every hash code exactly once, consecutive
\* ranges are adjacent, the last range has no upper bound, and the result
\* holds every row of the table.
SarRangesPartition ==
  /\ sar.ops # <<>>
  /\ \A h \in SarRowCodes :
       Cardinality({j \in 1..Len(sar.ops) : InRange(h, sar.ops[j])}) = 1
  /\ \A j \in 1..(Len(sar.ops) - 1) :
       /\ sar.ops[j].has_max_hash_code
       /\ sar.ops[j + 1].has_hash_code
       /\ sar.ops[j + 1].hash_code = sar.ops[j].max_hash_code + 1
  /\ ~sar.ops[1].has_hash_code
  /\ ~sar.ops[Len(sar.ops)].has_max_hash_code
  /\ sar.result = SarRowCodes

\* C29: for every list of partition start keys of the table, a table with a
\* single partition included, the operations SelectAllRows has issued when
\* it returns partition the hash space, and the returned map contains every
\* row of the table.
C29_AllRowsSelected == sar.pc = "done" => SarRangesPartition

-----------------------------------------------------------------------------
(* Properties of GetTabletOrRespond (checked under SpecRpc) *)

\* What a request that has returned looks like.
RpcAnswered(r) ==
  /\ r.ret \in {"true", "false"}
  /\ r.ret = "true" <=> (r.initialized /\ r.leader /\ r.found)
  /\ r.ret = "true" => (r.tablet = "set" /\ r.responses = <<>>)
  /\ r.ret = "false" =>
       /\ r.tablet = "unset"
       /\ Len(r.responses) = 1
       /\ r.responses[1] = IF r.looked_up THEN "success:TABLET_NOT_FOUND"
                                           ELSE "leader_check_failed"
       /\ r.looked_up => (r.initialized /\ r.leader /\ ~r.found)

\* C30: GetTabletOrRespond answers each read request exactly one way: true
\* with the tablet set and no response sent only when the catalog manager
\* is initialized, this master is leader and the system tablet is found;
\* otherwise false after exactly one response (the leader-check failure, or
\* a success response with TABLET_NOT_FOUND) with the tablet unset; and the
\* tablet is looked up only while the leader lock is held shared.
C30_OneAnswer ==
  /\ [](\A t \in RpcThreads :
          /\ rpc.req[t].pc = "returned" => RpcAnswered(rpc.req[t])
          /\ rpc.req[t].pc # "returned" =>
               (rpc.req[t].responses = <<>> /\ rpc.req[t].tablet = "unset"))
  /\ [][\A t \in RpcThreads :
          RpcLookup(t) =>
            (rpc.req[t].owns_lock /\ rpc.readers > 0 /\ ~rpc.writer)]_vars

\* One request has returned true with its tablet while the other returned
\* false with the not-found response.
C30_Witness ==
  /\ rpc.req[1].pc = "returned" /\ rpc.req[1].ret = "true"
  /\ rpc.req[1].tablet = "set"
  /\ rpc.req[2].pc = "returned" /\ rpc.req[2].ret = "false"
  /\ rpc.req[2].responses = <<"success:TABLET_NOT_FOUND">>

====
